---- MODULE Spec2Model ----
(***************************************************************************)
(* Reward-wheel backend (kristianakila/restbek2).                          *)
(*                                                                         *)
(* The repository holds two builds of the server.  src/server.js is an     *)
(* Express application with the handlers /api/status, /api/spin,           *)
(* /api/submit-lead and /api/lead-fallback; src/routes/routes.js is a      *)
(* router whose /api/spin works through src/services/firebaseService.js.   *)
(* Both work on the Firestore documents bots/{bot} and                     *)
(* bots/{bot}/users/{user}.  One of them is deployed (`deployed`).         *)
(*                                                                         *)
(* Every `await` on a store operation is a suspension point, so each       *)
(* handler is a sequence of atomic steps (one per awaited store operation, *)
(* together with the synchronous code that follows it) and the steps of    *)
(* different requests interleave freely.                                   *)
(*                                                                         *)
(* Time is Date.now() in milliseconds.  A server timestamp                 *)
(* (FieldValue.serverTimestamp()) is taken at the step that commits the    *)
(* write, also for the `date` of a spinRecord handed to                    *)
(* FieldValue.arrayUnion; it is finer than a millisecond and no two        *)
(* commits carry the same one, so it is the pair of the clock value in ms  *)
(* and a sequence number.  Calendar days are those of toDateString() in    *)
(* one time zone.                                                          *)
(***************************************************************************)
EXTENDS Integers, Sequences, FiniteSets, TLC

VARIABLES
    now,        \* Date.now(), ms
    ticks,      \* number of clock advances so far
    deployed,   \* the build that serves the requests: Server or Routes
    botConfigCache, \* part_000: the process's cache of tenant configurations
    failed,     \* number of store operations and outbound calls that have
                \* failed so far
    persisted,  \* history: the spin ids written to the store so far
    fresh,      \* number of never-repeated values drawn so far: the part of a
                \* server timestamp below the millisecond, the random suffix
                \* of a spin id
    nreq,       \* number of requests accepted so far
    botData,    \* bots/b1: the tenant configuration (limits, wheel.prizes)
    botStats,   \* bots/b1: the counters totalSpins, totalPrizes
    users,      \* bots/b1/users/{user}: one document per user, or NoDoc
    pc,         \* per request slot: the await the handler is suspended at
    req,        \* per request slot: req.body of the request being served
    loc,        \* per request slot: the handler's local variables
    res         \* per request slot: the response sent (res.json / res.status)

vars == <<now, ticks, deployed, botConfigCache, failed, persisted, fresh, nreq, botData, botStats, users, pc, req, loc, res>>

----------------------------------------------------------------------------
(* Bounds of the model *)

MaxReq == 3          \* requests accepted in one behaviour
MaxTicks == 1        \* clock advances in one behaviour
MaxPrizes == 3       \* prizes in a tenant's table
MaxWeight == 2       \* greatest probability of a prize
MaxLatency == 1000    \* ms between the store serving a read and the promise resolving
MaxElapse == 3        \* clock advances in one behaviour of the configuration cache
MaxFailures == 2     \* store operations that fail in one behaviour

(* Program constants *)

DayMs == 86400000            \* one calendar day, ms
SecondMs == 1000
DefaultSpinsPerDay == 3      \* botData.limits?.spinsPerDay || 3
DefaultCooldownSeconds == 3600   \* botData.limits?.cooldownSeconds || 3600
CACHE_TTL == 60000
DefaultAttempts == 3         \* attempts_left of a day: userData.attemptsLeft || 3

Server == "server.js"        \* src/server.js
Routes == "routes.js"        \* src/routes/routes.js with src/services/firebaseService.js
Cached == "part_000"         \* getBotConfig of src/unnamed/part_000
RoutesTx == "part_004"       \* src/routes/routes.js with the service of src/unnamed/part_004

Users == {"u1", "u2"}
Callers == {"u1"}            \* the users that send requests; u2 is named as referrer
NoUser == "none"             \* referrer_id absent from the request
Procs == {1, 2}              \* request slots: requests in flight at the same time
TheBot == "b1"               \* the tenant whose document exists
BotIds == {"b1", "b0"}       \* b0: a bot_id with no bots/{bot_id} document
TickSteps == {1500, 86400000}    \* clock advances, ms

NoTime == -1                 \* no time
NoStamp == [ms |-> NoTime, seq |-> 0]    \* lastSpin: null
NoSpinId == <<NoTime, NoUser>>
NoContact == "none"
Contacts == {"c1"}

----------------------------------------------------------------------------
(* Tenant configuration *)

\* wheel.prizes of the tenant, in table order
WheelPrizes ==
    << [id |-> 1, probability |-> 1, type |-> "points", isAvailable |-> TRUE],
       [id |-> 2, probability |-> 1, type |-> "none",   isAvailable |-> TRUE] >>

\* the type of the prize at a position of a drawn table
PrizeTypes == <<"points", "none", "points", "points">>

\* wheel.prizes as a tenant can configure it: probability is a weight, a
\* prize can be switched off; WheelPrizes is one of these tables
PrizeTables ==
    UNION { { [i \in 1..n |-> [id |-> i, probability |-> w[i],
                               type |-> PrizeTypes[((i - 1) % 4) + 1],
                               isAvailable |-> a[i]]] :
                w \in [1..n -> 0..MaxWeight], a \in [1..n -> BOOLEAN] } :
            n \in 1..MaxPrizes }

\* limits of the tenant: spinsPerDay and cooldownSeconds are unsigned
LimitChoices ==
    { [spinsPerDay |-> 1, cooldownSeconds |-> 3600],
      [spinsPerDay |-> 2, cooldownSeconds |-> 1],
      [spinsPerDay |-> 0, cooldownSeconds |-> 0] }

\* botConfigCache.get(botId) when nothing was cached
NoEntry == [config |-> [id |-> "none", readAt |-> NoTime], timestamp |-> NoTime]

\* the clock advances of the configuration cache, ms
ElapseSteps == {1000, 59500, 60000}

\* JavaScript `x || d` on a number: 0 is falsy
OrDefault(x, d) == IF x = 0 THEN d ELSE x

----------------------------------------------------------------------------
(* Documents *)

NoDoc == [exists |-> FALSE]

\* the document /api/status writes for a user it did not find
NewUserData ==
    [ exists |-> TRUE,
      spins |-> << >>,
      totalSpins |-> 0,
      totalPrizes |-> 0,
      lastSpin |-> NoStamp,
      invitedUsers |-> {},
      referrals |-> 0,
      referrer_processed |-> FALSE,
      referrer_id |-> NoUser ]

\* FieldValue.serverTimestamp() as resolved by the commit of this step
serverTimestamp == [ms |-> now, seq |-> fresh]

\* Timestamp.toDate().getTime()
getTime(ts) == ts.ms

\* Date.prototype.toDateString(): the calendar day of a time
toDateString(t) == t \div DayMs

\* number of j in 1..Len(s) with P(s[j])
RECURSIVE CountSpinsOn(_, _)
CountSpinsOn(spins, day) ==
    IF spins = << >> THEN 0
    ELSE (IF toDateString(getTime(Head(spins).date)) = day THEN 1 ELSE 0)
         + CountSpinsOn(Tail(spins), day)

\* spinsToday: userData.spins.filter(spin => spinDate === today).length
spinsToday(userData, t) == CountSpinsOn(userData.spins, toDateString(t))

\* maxSpins
maxSpins == OrDefault(botData.limits.spinsPerDay, DefaultSpinsPerDay)

\* cooldownEnd = lastSpinTime + cooldownSeconds * 1000
cooldownEnd(userData) ==
    getTime(userData.lastSpin)
      + OrDefault(botData.limits.cooldownSeconds, DefaultCooldownSeconds) * SecondMs

\* Math.ceil(a / b) for a >= 0, b > 0
CeilDiv(a, b) == (a + b - 1) \div b

----------------------------------------------------------------------------
(* Requests, locals, responses *)

NoReq == [op |-> "none", user_id |-> NoUser, bot_id |-> TheBot,
          referrer_id |-> NoUser, spin_id |-> NoSpinId, contact |-> NoContact]

NoLoc == [userData |-> NoDoc, spinsToday |-> 0, prize |-> 0,
          spin_id |-> NoSpinId, updatedSpins |-> << >>]

NoRes == [code |-> 0, error |-> "none"]

Idle(p) == pc[p] = "idle"

\* res.json(...) / res.status(c).json(...): the handler is finished
Respond(p, r) ==
    /\ res' = [res EXCEPT ![p] = r]
    /\ pc' = [pc EXCEPT ![p] = "idle"]
    /\ loc' = [loc EXCEPT ![p] = NoLoc]

\* a request is accepted into the first free slot
Accept(p, r) ==
    /\ Idle(p)
    /\ \A q \in Procs : Idle(q) => p <= q
    /\ nreq < MaxReq
    /\ nreq' = nreq + 1
    /\ req' = [req EXCEPT ![p] = r]

----------------------------------------------------------------------------
(* POST /api/status *)

\* cooldown field of the status response
statusCooldown(userData, t) ==
    IF userData.lastSpin # NoStamp THEN cooldownEnd(userData) - t ELSE 0

StatusResponse(userData, t) ==
    [ code |-> 200, error |-> "none",
      attempts_left |->
          IF maxSpins - spinsToday(userData, t) > 0
          THEN maxSpins - spinsToday(userData, t) ELSE 0,
      spins_today |-> spinsToday(userData, t),
      total_spins |-> userData.totalSpins,
      total_prizes |-> userData.totalPrizes,
      referrals |-> Cardinality(userData.invitedUsers),
      cooldown |-> statusCooldown(userData, t) ]

\* the request arrives; botRef.get() and userRef.get() resolve
Status(p, u, b) ==
    /\ deployed = Server
    /\ Accept(p, [NoReq EXCEPT !.op = "status", !.user_id = u, !.bot_id = b])
    /\ IF b # TheBot
       THEN /\ Respond(p, [code |-> 404, error |-> "BotNotFound"])
       ELSE IF users[u].exists
       THEN /\ Respond(p, StatusResponse(users[u], now))
       ELSE /\ pc' = [pc EXCEPT ![p] = "status_set"]
            /\ loc' = [loc EXCEPT ![p] = [NoLoc EXCEPT !.userData = NewUserData]]
            /\ res' = [res EXCEPT ![p] = NoRes]
    /\ UNCHANGED <<now, ticks, deployed, botConfigCache, failed, persisted, fresh, botData, botStats, users>>

\* await userRef.set(userData): the whole document is replaced
StatusSet(p) ==
    /\ pc[p] = "status_set"
    /\ users' = [users EXCEPT ![req[p].user_id] = loc[p].userData]
    /\ Respond(p, StatusResponse(loc[p].userData, now))
    /\ UNCHANGED <<now, ticks, deployed, botConfigCache, failed, persisted, fresh, nreq, botData, botStats, req>>

----------------------------------------------------------------------------
(* POST /api/spin *)

\* availablePrizes: prizes.filter(p => p.isAvailable !== false)
availablePrizes == SelectSeq(botData.prizes, LAMBDA z : z.isAvailable)

\* totalProbability: availablePrizes.reduce((sum, p) => sum + p.probability, 0)
RECURSIVE totalProbability(_)
totalProbability(prizes) ==
    IF prizes = << >> THEN 0
    ELSE Head(prizes).probability + totalProbability(Tail(prizes))

\* the loop over availablePrizes, from position i with `random` left
RECURSIVE prizeWalk(_, _, _)
prizeWalk(prizes, i, random) ==
    IF i > Len(prizes) THEN prizes[1]
    ELSE IF random < prizes[i].probability THEN prizes[i]
    ELSE prizeWalk(prizes, i + 1, random - prizes[i].probability)

\* selectedPrize for the draw random = Math.random() * totalProbability
selectedPrize(prizes, random) == prizeWalk(prizes, 1, random)

\* the values Math.random() * totalProbability takes (integer weights)
Draws(prizes) ==
    IF totalProbability(prizes) > 0 THEN 0 .. (totalProbability(prizes) - 1) ELSE {0}

\* the daily-limit rule
dailyLimitReached(userData, t) == spinsToday(userData, t) >= maxSpins

\* the cooldown rule
coolingDown(userData, t) ==
    /\ userData.lastSpin # NoStamp
    /\ t < cooldownEnd(userData)

\* referrer_id && String(referrer_id) !== String(user_id)
hasReferrer(r) == r.referrer_id # NoUser /\ r.referrer_id # r.user_id

\* prize selection and spin_id generation, the synchronous code that ends at
\* `await userRef.update({spins: arrayUnion(spinRecord), ...})`
PrepareSpin(p, u, l) ==
    IF Len(availablePrizes) = 0
    THEN /\ Respond(p, [code |-> 400, error |-> "NoPrizes"])
    ELSE /\ \E random \in Draws(availablePrizes) :
              loc' = [loc EXCEPT ![p] =
                        [l EXCEPT !.prize = selectedPrize(availablePrizes, random),
                                  !.spin_id = <<now, u>>]]
         /\ pc' = [pc EXCEPT ![p] = "spin_write"]
         /\ res' = [res EXCEPT ![p] = NoRes]

\* a rejection that would count the attempt in the tenant's totalSpins: the
\* behaviour C9 excludes
RejectSpinCounting(p, r) ==
    /\ Respond(p, r)
    /\ botStats' = [botStats EXCEPT !.totalSpins = @ + 1]
    /\ UNCHANGED users

\* return res.status(400).json({error}) of an eligibility rule: nothing is written
RejectSpin(p, r) ==
    /\ Respond(p, r)
    /\ UNCHANGED <<users, botStats>>

\* the request arrives; botRef.get() and userRef.get() resolve; eligibility
Spin(p, u, b, ref) ==
    /\ deployed = Server
    /\ Accept(p, [NoReq EXCEPT !.op = "spin", !.user_id = u, !.bot_id = b,
                               !.referrer_id = ref])
    /\ IF b # TheBot
       THEN /\ Respond(p, [code |-> 404, error |-> "BotNotFound"])
            /\ UNCHANGED <<users, botStats>>
       ELSE IF ~users[u].exists
       THEN /\ Respond(p, [code |-> 404, error |-> "UserNotFound"])
            /\ UNCHANGED <<users, botStats>>
       ELSE IF dailyLimitReached(users[u], now)
       THEN RejectSpin(p, [code |-> 400, error |-> "DailyLimitReached"])
       ELSE IF coolingDown(users[u], now)
       THEN RejectSpin(p, [code |-> 400, error |-> "CoolingDown",
                           seconds |-> CeilDiv(cooldownEnd(users[u]) - now, SecondMs)])
       ELSE IF hasReferrer([user_id |-> u, referrer_id |-> ref])
       THEN /\ pc' = [pc EXCEPT ![p] = "spin_referrer_get"]
            /\ loc' = [loc EXCEPT ![p] =
                         [NoLoc EXCEPT !.userData = users[u],
                                       !.spinsToday = spinsToday(users[u], now)]]
            /\ res' = [res EXCEPT ![p] = NoRes]
            /\ UNCHANGED <<users, botStats>>
       ELSE /\ PrepareSpin(p, u, [NoLoc EXCEPT !.userData = users[u],
                                        !.spinsToday = spinsToday(users[u], now)])
            /\ UNCHANGED <<users, botStats>>
    /\ UNCHANGED <<now, ticks, deployed, botConfigCache, failed, persisted, fresh, botData>>

\* await referrerRef.get()
SpinReferrerGet(p) ==
    /\ pc[p] = "spin_referrer_get"
    /\ IF users[req[p].referrer_id].exists /\ ~loc[p].userData.referrer_processed
       THEN /\ pc' = [pc EXCEPT ![p] = "spin_referrer_update"]
            /\ UNCHANGED <<loc, res>>
       ELSE PrepareSpin(p, req[p].user_id, loc[p])
    /\ UNCHANGED <<now, ticks, deployed, botConfigCache, failed, persisted, fresh, nreq, botData, botStats, users, req>>

\* a handler that goes on to the flag without the referrer's update being
\* applied: the order C21 excludes
SpinReferrerUpdateSkipped(p) ==
    /\ pc[p] = "spin_referrer_update"
    /\ pc' = [pc EXCEPT ![p] = "spin_referrer_flag"]
    /\ UNCHANGED <<now, ticks, deployed, botConfigCache, failed, persisted, fresh, nreq, botData, botStats, users, req, loc, res>>

\* await referrerRef.update({invitedUsers: arrayUnion(user_id), referrals: increment(1)})
SpinReferrerUpdate(p) ==
    /\ pc[p] = "spin_referrer_update"
    /\ users' = [users EXCEPT ![req[p].referrer_id] =
                   [@ EXCEPT !.invitedUsers = @ \cup {req[p].user_id},
                             !.referrals = @ + 1]]
    /\ pc' = [pc EXCEPT ![p] = "spin_referrer_flag"]
    /\ UNCHANGED <<now, ticks, deployed, botConfigCache, failed, persisted, fresh, nreq, botData, botStats, req, loc, res>>

\* await userRef.update({referrer_processed: true, referrer_id})
SpinReferrerFlag(p) ==
    /\ pc[p] = "spin_referrer_flag"
    /\ users' = [users EXCEPT ![req[p].user_id] =
                   [@ EXCEPT !.referrer_processed = TRUE,
                             !.referrer_id = req[p].referrer_id]]
    /\ PrepareSpin(p, req[p].user_id, loc[p])
    /\ UNCHANGED <<now, ticks, deployed, botConfigCache, failed, persisted, fresh, nreq, botData, botStats, req>>

\* the spinRecord as stored: date is the server timestamp of the write
spinRecord(p, t) ==
    [ spin_id |-> loc[p].spin_id,
      prize_id |-> loc[p].prize.id,
      prize_type |-> loc[p].prize.type,
      date |-> t,
      lead_submitted |-> FALSE,
      lead_fallback |-> FALSE,
      lead_data |-> NoContact ]

\* FieldValue.arrayUnion(e): e is added unless an equal element is present
arrayUnion(arr, e) ==
    IF \E j \in 1..Len(arr) : arr[j] = e THEN arr ELSE Append(arr, e)

\* await userRef.update({spins: arrayUnion(spinRecord), totalSpins: increment(1),
\*                       lastSpin: serverTimestamp()})
SpinWrite(p) ==
    /\ pc[p] = "spin_write"
    /\ users' = [users EXCEPT ![req[p].user_id] =
                   [@ EXCEPT !.spins = arrayUnion(@, spinRecord(p, serverTimestamp)),
                             !.totalSpins = @ + 1,
                             !.lastSpin = serverTimestamp]]
    /\ fresh' = fresh + 1
    /\ persisted' = persisted \cup {loc[p].spin_id}
    /\ pc' = [pc EXCEPT ![p] = "spin_bot"]
    /\ UNCHANGED <<now, ticks, deployed, botConfigCache, failed, nreq, botData, botStats, req, loc, res>>

SpinResponse(p) ==
    [ code |-> 200, error |-> "none",
      spin_id |-> loc[p].spin_id,
      prize_id |-> loc[p].prize.id,
      prize_type |-> loc[p].prize.type,
      attempts_left |->
          IF maxSpins - (loc[p].spinsToday + 1) > 0
          THEN maxSpins - (loc[p].spinsToday + 1) ELSE 0 ]

\* await botRef.update({totalSpins: increment(1)})
SpinBotUpdate(p) ==
    /\ pc[p] = "spin_bot"
    /\ botStats' = [botStats EXCEPT !.totalSpins = @ + 1]
    /\ IF loc[p].prize.type # "none"
       THEN /\ pc' = [pc EXCEPT ![p] = "spin_prize"]
            /\ UNCHANGED <<loc, res>>
       ELSE Respond(p, SpinResponse(p))
    /\ UNCHANGED <<now, ticks, deployed, botConfigCache, failed, persisted, fresh, nreq, botData, users, req>>

\* await userRef.update({prizes: arrayUnion(prizeRecord), totalPrizes: increment(1)})
SpinPrizeWrite(p) ==
    /\ pc[p] = "spin_prize"
    /\ users' = [users EXCEPT ![req[p].user_id] = [@ EXCEPT !.totalPrizes = @ + 1]]
    /\ pc' = [pc EXCEPT ![p] = "spin_bot_prize"]
    /\ UNCHANGED <<now, ticks, deployed, botConfigCache, failed, persisted, fresh, nreq, botData, botStats, req, loc, res>>

\* await botRef.update({totalPrizes: increment(1)}); the notification is
\* best effort; res.json({success: true, ...})
SpinBotPrize(p) ==
    /\ pc[p] = "spin_bot_prize"
    /\ botStats' = [botStats EXCEPT !.totalPrizes = @ + 1]
    /\ Respond(p, SpinResponse(p))
    /\ UNCHANGED <<now, ticks, deployed, botConfigCache, failed, persisted, fresh, nreq, botData, users, req>>

----------------------------------------------------------------------------
(* POST /api/submit-lead and POST /api/lead-fallback *)

\* spin_ids a client can name: those of the user's stored spins
KnownSpinIds(u) ==
    IF users[u].exists
    THEN {users[u].spins[j].spin_id : j \in 1..Len(users[u].spins)}
    ELSE {}

\* userData.spins.map(spin => spin.spin_id === spin_id ?
\*     {...spin, lead_submitted: true, lead_data: {name, phone}} : spin)
submitMap(spins, sid, c) ==
    [j \in 1..Len(spins) |->
        IF spins[j].spin_id = sid
        THEN [spins[j] EXCEPT !.lead_submitted = TRUE, !.lead_data = c]
        ELSE spins[j]]

\* userData.spins.map(spin => spin.spin_id === spin_id ?
\*     {...spin, lead_fallback: true} : spin)
fallbackMap(spins, sid) ==
    [j \in 1..Len(spins) |->
        IF spins[j].spin_id = sid
        THEN [spins[j] EXCEPT !.lead_fallback = TRUE]
        ELSE spins[j]]

LeadOk == [code |-> 200, error |-> "none"]

\* the request arrives; botRef.get() and userRef.get() resolve
SubmitLead(p, u, b, sid, c) ==
    /\ deployed = Server
    /\ Accept(p, [NoReq EXCEPT !.op = "submit-lead", !.user_id = u, !.bot_id = b,
                               !.spin_id = sid, !.contact = c])
    /\ IF b # TheBot
       THEN /\ Respond(p, [code |-> 404, error |-> "BotNotFound"])
       ELSE IF ~users[u].exists
       THEN /\ Respond(p, LeadOk)
       ELSE /\ pc' = [pc EXCEPT ![p] = "lead_write"]
            /\ loc' = [loc EXCEPT ![p] =
                         [NoLoc EXCEPT !.updatedSpins = submitMap(users[u].spins, sid, c)]]
            /\ res' = [res EXCEPT ![p] = NoRes]
    /\ UNCHANGED <<now, ticks, deployed, botConfigCache, failed, persisted, fresh, botData, botStats, users>>

LeadFallback(p, u, b, sid) ==
    /\ deployed = Server
    /\ Accept(p, [NoReq EXCEPT !.op = "lead-fallback", !.user_id = u, !.bot_id = b,
                               !.spin_id = sid])
    /\ IF b # TheBot
       THEN /\ Respond(p, [code |-> 404, error |-> "BotNotFound"])
       ELSE IF ~users[u].exists
       THEN /\ Respond(p, LeadOk)
       ELSE /\ pc' = [pc EXCEPT ![p] = "lead_write"]
            /\ loc' = [loc EXCEPT ![p] =
                         [NoLoc EXCEPT !.updatedSpins = fallbackMap(users[u].spins, sid)]]
            /\ res' = [res EXCEPT ![p] = NoRes]
    /\ UNCHANGED <<now, ticks, deployed, botConfigCache, failed, persisted, fresh, botData, botStats, users>>

\* await userRef.update({spins: updatedSpins}): the stored array is replaced
LeadWrite(p) ==
    /\ pc[p] = "lead_write"
    /\ users' = [users EXCEPT ![req[p].user_id] =
                   [@ EXCEPT !.spins = loc[p].updatedSpins]]
    /\ Respond(p, LeadOk)
    /\ UNCHANGED <<now, ticks, deployed, botConfigCache, failed, persisted, fresh, nreq, botData, botStats, req>>

----------------------------------------------------------------------------
(* routes/routes.js: POST /api/spin, with services/firebaseService.js *)

\* today.setHours(0, 0, 0, 0): the first millisecond of the day of t
startOfDay(t) == toDateString(t) * DayMs

\* spins.filter(spin => new Date(spin.timestamp) >= today).length
RECURSIVE CountSpinsSince(_, _)
CountSpinsSince(spins, t0) ==
    IF spins = << >> THEN 0
    ELSE (IF Head(spins).timestamp >= t0 THEN 1 ELSE 0)
         + CountSpinsSince(Tail(spins), t0)

\* createUser: the document written for a user that was not found
newUser(attemptsLeft, t) ==
    [ exists |-> TRUE,
      spins |-> << >>,
      total_spins |-> 0,
      total_prizes |-> 0,
      last_spin |-> NoStamp,
      attempts_left |-> OrDefault(attemptsLeft, DefaultAttempts),
      spins_today |-> 0,
      invited_users |-> {},
      referrals |-> 0,
      last_reset_day |-> toDateString(t) ]

\* (prize.probability || 0.1), in tenths
prizeWeight(prize) == IF prize.probability = 0 THEN 1 ELSE prize.probability * 10

\* prizes.reduce((sum, prize) => sum + (prize.probability || 0.1), 0), in tenths
RECURSIVE totalWeight(_)
totalWeight(prizes) ==
    IF prizes = << >> THEN 0
    ELSE prizeWeight(Head(prizes)) + totalWeight(Tail(prizes))

\* the loop of selectPrize from position i with `random` left; the first
\* prize when the loop ends without a choice
RECURSIVE selectPrizeFrom(_, _, _)
selectPrizeFrom(prizes, i, random) ==
    IF i > Len(prizes) THEN [label |-> prizes[1].id, type |-> prizes[1].type]
    ELSE IF random < prizeWeight(prizes[i])
    THEN [label |-> prizes[i].id, type |-> prizes[i].type]
    ELSE selectPrizeFrom(prizes, i + 1, random - prizeWeight(prizes[i]))

\* selectPrize(botConfig) for the draw random = Math.random() * totalProbability
selectPrize(prizes, random) == selectPrizeFrom(prizes, 1, random)

\* saveSpin: the spin object, built before the first await; the spin id ends
\* in a random suffix
newSpin(prize, t, suffix) ==
    [ spin_id |-> <<t, ToString(suffix)>>,
      prize |-> prize.label,
      prize_type |-> prize.type,
      timestamp |-> t,
      claimed |-> FALSE,
      lead_submitted |-> FALSE ]

\* the handler from the daily-limit check on, with userData in hand: the
\* limit, the attempts, the prize and saveSpin up to `await userRef.get()`
RoutesEligibility(p, userData) ==
    LET count == CountSpinsSince(userData.spins, startOfDay(now)) IN
    IF count >= maxSpins
    THEN /\ Respond(p, [code |-> 400, error |-> "DailyLimitReached",
                        spins_today |-> count, max_spins_per_day |-> maxSpins])
         /\ UNCHANGED fresh
    ELSE IF userData.attempts_left <= 0
    THEN /\ Respond(p, [code |-> 400, error |-> "NoAttemptsLeft"])
         /\ UNCHANGED fresh
    ELSE /\ \E random \in 0 .. (totalWeight(botData.prizes) - 1) :
              loc' = [loc EXCEPT ![p] =
                        [userData |-> userData,
                         spinsToday |-> count,
                         spin |-> newSpin(selectPrize(botData.prizes, random),
                                          now, fresh),
                         spinId |-> NoSpinId]]
         /\ fresh' = fresh + 1
         /\ pc' = [pc EXCEPT ![p] = IF deployed = RoutesTx THEN "save_spin_tx"
                                    ELSE "save_spin_get"]
         /\ res' = [res EXCEPT ![p] = NoRes]

\* the request arrives; getBotConfig and getUserData resolve
RoutesSpin(p, u, b) ==
    /\ deployed \in {Routes, RoutesTx}
    /\ Accept(p, [NoReq EXCEPT !.op = "spin", !.user_id = u, !.bot_id = b])
    /\ IF b # TheBot
       THEN /\ Respond(p, [code |-> 404, error |-> "BotNotFound"])
            /\ UNCHANGED fresh
       ELSE IF users[u].exists
       THEN RoutesEligibility(p, users[u])
       ELSE /\ pc' = [pc EXCEPT ![p] = "create_user_get"]
            /\ loc' = [loc EXCEPT ![p] = NoLoc]
            /\ res' = [res EXCEPT ![p] = NoRes]
            /\ UNCHANGED fresh
    /\ UNCHANGED <<now, ticks, deployed, botConfigCache, failed, persisted, botData, botStats, users>>

\* createUser: await userRef.get(); an existing document is returned as it is
CreateUserGet(p) ==
    /\ pc[p] = "create_user_get"
    /\ IF users[req[p].user_id].exists
       THEN RoutesEligibility(p, users[req[p].user_id])
       ELSE /\ pc' = [pc EXCEPT ![p] = "create_user_set"]
            /\ loc' = [loc EXCEPT ![p] =
                         [NoLoc EXCEPT !.userData = newUser(maxSpins, now)]]
            /\ UNCHANGED <<res, fresh>>
    /\ UNCHANGED <<now, ticks, deployed, botConfigCache, failed, persisted, nreq, botData, botStats, users, req>>

\* createUser: await userRef.set(newUser): the whole document is replaced
CreateUserSet(p) ==
    /\ pc[p] = "create_user_set"
    /\ users' = [users EXCEPT ![req[p].user_id] = loc[p].userData]
    /\ RoutesEligibility(p, loc[p].userData)
    /\ UNCHANGED <<now, ticks, deployed, botConfigCache, failed, persisted, nreq, botData, botStats, req>>

\* Math.max(0, x)
Max0(x) == IF x > 0 THEN x ELSE 0

\* saveSpin: the updateData computed from the document read
updateData(userData, spin, t) ==
    [ spins |-> Append(userData.spins, spin),
      attempts_left |->
          Max0((IF userData.last_reset_day # toDateString(t)
                THEN DefaultAttempts ELSE userData.attempts_left) - 1),
      spins_today |-> CountSpinsSince(userData.spins, startOfDay(t)) + 1,
      last_reset_day |-> toDateString(t) ]

\* saveSpin: await userRef.get().  The document exists: the handler created
\* it when it was absent, and no operation removes a document.
SaveSpinGet(p) ==
    /\ pc[p] = "save_spin_get"
    /\ users[req[p].user_id].exists
    /\ loc' = [loc EXCEPT ![p] =
                 [userData |-> loc[p].userData,
                  spinsToday |-> loc[p].spinsToday,
                  spin |-> loc[p].spin,
                  spinId |-> NoSpinId,
                  updateData |-> updateData(users[req[p].user_id], loc[p].spin, now)]]
    /\ pc' = [pc EXCEPT ![p] = "save_spin_update"]
    /\ UNCHANGED <<now, ticks, deployed, botConfigCache, failed, persisted, fresh, nreq, botData, botStats, users, req, res>>

\* saveSpin: await userRef.update(updateData)
SaveSpinUpdate(p) ==
    /\ pc[p] = "save_spin_update"
    /\ users' = [users EXCEPT ![req[p].user_id] =
                   [@ EXCEPT !.spins = loc[p].updateData.spins,
                             !.last_spin = serverTimestamp,
                             !.total_spins = @ + 1,
                             !.attempts_left = loc[p].updateData.attempts_left,
                             !.spins_today = loc[p].updateData.spins_today,
                             !.last_reset_day = loc[p].updateData.last_reset_day]]
    /\ fresh' = fresh + 1
    /\ persisted' = persisted \cup {loc[p].spin.spin_id}
    /\ pc' = [pc EXCEPT ![p] = "spin_result"]
    /\ loc' = [loc EXCEPT ![p].spinId = loc[p].spin.spin_id]
    /\ UNCHANGED <<now, ticks, deployed, botConfigCache, failed, nreq, botData, botStats, req, res>>

\* the value `await firebaseService.saveSpin(...)` gave; the second
\* getUserData resolves; res.json({success: true, spin_id: spinId, ...})
RoutesSpinResult(p) ==
    /\ pc[p] = "spin_result"
    /\ Respond(p, [code |-> 200, error |-> "none",
                   spin_id |-> loc[p].spinId,
                   prize |-> loc[p].spin.prize,
                   attempts_left |-> users[req[p].user_id].attempts_left,
                   spins_today |-> loc[p].spinsToday + 1,
                   total_spins |-> OrDefault(users[req[p].user_id].total_spins,
                                             loc[p].userData.total_spins + 1)])
    /\ UNCHANGED <<now, ticks, deployed, botConfigCache, failed, persisted, fresh, nreq, botData, botStats, users, req>>

----------------------------------------------------------------------------
(* Store operations that fail.  A failed operation writes nothing; what the
   caller sees is what the catch block around it does.  At most MaxFailures
   operations fail in one behaviour. *)

\* server.js: referrerRef.update rejects; nothing is written, the rejection
\* reaches the handler's catch: res.status(500)
SpinReferrerUpdateFails(p) ==
    /\ pc[p] = "spin_referrer_update"
    /\ failed < MaxFailures
    /\ failed' = failed + 1
    /\ Respond(p, [code |-> 500, error |-> "InternalError"])
    /\ UNCHANGED <<now, ticks, deployed, botConfigCache, persisted, fresh, nreq, botData, botStats, users, req>>

\* server.js: the handler stops between the referrer's update and
\* userRef.update({referrer_processed: true}): that update rejects or the
\* process dies; the flag is not written
SpinReferrerFlagFails(p) ==
    /\ pc[p] = "spin_referrer_flag"
    /\ failed < MaxFailures
    /\ failed' = failed + 1
    /\ Respond(p, [code |-> 500, error |-> "InternalError"])
    /\ UNCHANGED <<now, ticks, deployed, botConfigCache, persisted, fresh, nreq, botData, botStats, users, req>>

\* server.js, a tenant with a botToken: await botRef.update({totalPrizes:
\* increment(1)}); then axios.post(.../sendMessage) is issued
SpinBotPrizeToken(p) ==
    /\ pc[p] = "spin_bot_prize"
    /\ botStats' = [botStats EXCEPT !.totalPrizes = @ + 1]
    /\ pc' = [pc EXCEPT ![p] = "spin_notify"]
    /\ UNCHANGED <<now, ticks, deployed, botConfigCache, failed, persisted, fresh, nreq, botData, users, req, loc, res>>

\* await axios.post(...) resolves; res.json({success: true, ...})
SpinNotify(p) ==
    /\ pc[p] = "spin_notify"
    /\ Respond(p, SpinResponse(p))
    /\ UNCHANGED <<now, ticks, deployed, botConfigCache, failed, persisted, fresh, nreq, botData, botStats, users, req>>

\* a handler that lets the rejection of the notification reach its outer
\* catch: the behaviour C26 excludes
SpinNotifyFailsPropagated(p) ==
    /\ pc[p] = "spin_notify"
    /\ failed < MaxFailures
    /\ failed' = failed + 1
    /\ Respond(p, [code |-> 500, error |-> "InternalError"])
    /\ UNCHANGED <<now, ticks, deployed, botConfigCache, persisted, fresh, nreq, botData, botStats, users, req>>

\* await axios.post(...) rejects; catch: console.error; res.json({success: true, ...})
SpinNotifyFails(p) ==
    /\ pc[p] = "spin_notify"
    /\ failed < MaxFailures
    /\ failed' = failed + 1
    /\ Respond(p, SpinResponse(p))
    /\ UNCHANGED <<now, ticks, deployed, botConfigCache, persisted, fresh, nreq, botData, botStats, users, req>>

\* server.js: userRef.update of the spin rejects; catch: res.status(500)
SpinWriteFails(p) ==
    /\ pc[p] = "spin_write"
    /\ failed < MaxFailures
    /\ failed' = failed + 1
    /\ Respond(p, [code |-> 500, error |-> "InternalError"])
    /\ UNCHANGED <<now, ticks, deployed, botConfigCache, persisted, fresh, nreq, botData, botStats, users, req>>

\* firebaseService.js saveSpin: userRef.get() or userRef.update() rejects;
\* catch: return `spin_${Date.now()}_${userId}_${random}`
SaveSpinFails(p) ==
    /\ pc[p] \in {"save_spin_get", "save_spin_update"}
    /\ failed < MaxFailures
    /\ failed' = failed + 1
    /\ loc' = [loc EXCEPT ![p].spinId = <<now, ToString(fresh)>>]
    /\ fresh' = fresh + 1
    /\ pc' = [pc EXCEPT ![p] = "spin_result"]
    /\ UNCHANGED <<now, ticks, deployed, botConfigCache, persisted, nreq, botData, botStats, users, req, res>>

\* part_004 saveSpin, the update branch of the transaction and of
\* saveSpinWithoutTransaction: what is written from the document read
txUpdateData(userData, spin, t) ==
    [ spins |-> Append(userData.spins, spin),
      attempts_left |-> Max0(userData.attempts_left - 1),
      spins_today |-> CountSpinsSince(userData.spins, startOfDay(t)) + 1 ]

\* part_004 saveSpin: firestore.runTransaction(get, update) commits: read and
\* write are one atomic step.  Either runTransaction resolves and saveSpin
\* returns spinId, or the commit is applied and runTransaction still rejects
\* (the outcome of the commit did not reach the caller): catch, fallback.
SaveSpinTx(p) ==
    /\ pc[p] = "save_spin_tx"
    /\ users[req[p].user_id].exists
    /\ LET upd == txUpdateData(users[req[p].user_id], loc[p].spin, now) IN
         users' = [users EXCEPT ![req[p].user_id] =
                     [@ EXCEPT !.spins = upd.spins,
                               !.last_spin = serverTimestamp,
                               !.total_spins = @ + 1,
                               !.attempts_left = upd.attempts_left,
                               !.spins_today = upd.spins_today]]
    /\ fresh' = fresh + 1
    /\ persisted' = persisted \cup {loc[p].spin.spin_id}
    /\ \/ /\ pc' = [pc EXCEPT ![p] = "spin_result"]
          /\ loc' = [loc EXCEPT ![p].spinId = loc[p].spin.spin_id]
          /\ UNCHANGED failed
       \/ /\ failed < MaxFailures
          /\ failed' = failed + 1
          /\ pc' = [pc EXCEPT ![p] = "fallback_get"]
          /\ UNCHANGED loc
    /\ UNCHANGED <<now, ticks, deployed, botConfigCache, nreq, botData, botStats, req, res>>

\* part_004 saveSpin: the transaction is not applied and runTransaction
\* rejects; catch: saveSpinWithoutTransaction(botId, userId, spinData, spinId, spin)
SaveSpinTxFails(p) ==
    /\ pc[p] = "save_spin_tx"
    /\ failed < MaxFailures
    /\ failed' = failed + 1
    /\ pc' = [pc EXCEPT ![p] = "fallback_get"]
    /\ UNCHANGED <<now, ticks, deployed, botConfigCache, persisted, fresh, nreq, botData, botStats, users, req, loc, res>>

\* saveSpinWithoutTransaction: await userRef.get()
FallbackGet(p) ==
    /\ pc[p] = "fallback_get"
    /\ users[req[p].user_id].exists
    /\ loc' = [loc EXCEPT ![p] =
                 [userData |-> loc[p].userData,
                  spinsToday |-> loc[p].spinsToday,
                  spin |-> loc[p].spin,
                  spinId |-> NoSpinId,
                  updateData |-> txUpdateData(users[req[p].user_id], loc[p].spin, now)]]
    /\ pc' = [pc EXCEPT ![p] = "fallback_update"]
    /\ UNCHANGED <<now, ticks, deployed, botConfigCache, failed, persisted, fresh, nreq, botData, botStats, users, req, res>>

\* saveSpinWithoutTransaction: await userRef.update({spins: [...currentSpins, spin],
\* total_spins: increment(1), attempts_left, ...}); return spinId
FallbackUpdate(p) ==
    /\ pc[p] = "fallback_update"
    /\ users' = [users EXCEPT ![req[p].user_id] =
                   [@ EXCEPT !.spins = loc[p].updateData.spins,
                             !.last_spin = serverTimestamp,
                             !.total_spins = @ + 1,
                             !.attempts_left = loc[p].updateData.attempts_left]]
    /\ fresh' = fresh + 1
    /\ persisted' = persisted \cup {loc[p].spin.spin_id}
    /\ pc' = [pc EXCEPT ![p] = "spin_result"]
    /\ loc' = [loc EXCEPT ![p].spinId = loc[p].spin.spin_id]
    /\ UNCHANGED <<now, ticks, deployed, botConfigCache, failed, nreq, botData, botStats, req, res>>

\* saveSpinWithoutTransaction: get or update rejects;
\* catch: return `error_spin_${Date.now()}_${userId}`
FallbackFails(p) ==
    /\ pc[p] \in {"fallback_get", "fallback_update"}
    /\ failed < MaxFailures
    /\ failed' = failed + 1
    /\ loc' = [loc EXCEPT ![p].spinId = <<now, "error_spin">>]
    /\ pc' = [pc EXCEPT ![p] = "spin_result"]
    /\ UNCHANGED <<now, ticks, deployed, botConfigCache, persisted, fresh, nreq, botData, botStats, users, req, res>>

----------------------------------------------------------------------------
(* unnamed/part_000: getBotConfig, the read-through cache of tenant
   configurations.  `await botRef.get()` is two steps: the store serves the
   read, and later the promise resolves in the process.  A configuration
   carries the time the store served it. *)

\* the call: a cached entry younger than CACHE_TTL is returned, otherwise
\* botRef.get() is issued
GetBotConfig(p, b) ==
    /\ deployed = Cached
    /\ Accept(p, [NoReq EXCEPT !.op = "getBotConfig", !.bot_id = b])
    /\ LET cached == botConfigCache[b] IN
         IF cached # NoEntry /\ now - cached.timestamp < CACHE_TTL
         THEN Respond(p, [code |-> 200, error |-> "none", config |-> cached.config])
         ELSE /\ pc' = [pc EXCEPT ![p] = "config_get"]
              /\ loc' = [loc EXCEPT ![p] = NoLoc]
              /\ res' = [res EXCEPT ![p] = NoRes]
    /\ UNCHANGED <<now, ticks, deployed, botConfigCache, failed, persisted, fresh, botData, botStats, users>>

\* the store serves botRef.get()
ConfigRead(p) ==
    /\ pc[p] = "config_get"
    /\ loc' = [loc EXCEPT ![p] =
                 [exists |-> req[p].bot_id = TheBot,
                  config |-> [id |-> req[p].bot_id, readAt |-> now]]]
    /\ pc' = [pc EXCEPT ![p] = "config_set"]
    /\ UNCHANGED <<now, ticks, deployed, botConfigCache, failed, persisted, fresh, nreq, botData, botStats, users, req, res>>

\* botRef.get() rejects: the catch logs and returns null, as for a missing
\* tenant; the cache is not touched
ConfigReadFails(p) ==
    /\ pc[p] = "config_get"
    /\ failed < MaxFailures
    /\ failed' = failed + 1
    /\ Respond(p, [code |-> 404, error |-> "BotNotFound"])
    /\ UNCHANGED <<now, ticks, deployed, botConfigCache, persisted, fresh, nreq, botData, botStats, users, req>>

\* a lookup that stores what it got also when the tenant was not found: the
\* behaviour C39 excludes
ConfigSetCachingMiss(p) ==
    /\ pc[p] = "config_set"
    /\ botConfigCache' = [botConfigCache EXCEPT ![req[p].bot_id] =
                             [config |-> loc[p].config, timestamp |-> now]]
    /\ IF ~loc[p].exists
       THEN Respond(p, [code |-> 404, error |-> "BotNotFound"])
       ELSE Respond(p, [code |-> 200, error |-> "none", config |-> loc[p].config])
    /\ UNCHANGED <<now, ticks, deployed, failed, persisted, fresh, nreq, botData, botStats, users, req>>

\* the promise resolves: a missing tenant gives null; otherwise
\* botConfigCache.set(botId, {config, timestamp: Date.now()}); return config
ConfigSet(p) ==
    /\ pc[p] = "config_set"
    /\ IF ~loc[p].exists
       THEN /\ Respond(p, [code |-> 404, error |-> "BotNotFound"])
            /\ UNCHANGED botConfigCache
       ELSE /\ botConfigCache' = [botConfigCache EXCEPT ![req[p].bot_id] =
                                    [config |-> loc[p].config, timestamp |-> now]]
            /\ Respond(p, [code |-> 200, error |-> "none", config |-> loc[p].config])
    /\ UNCHANGED <<now, ticks, deployed, failed, persisted, fresh, nreq, botData, botStats, users, req>>

\* time passes; a read the store has served reaches the process within
\* MaxLatency
Elapse ==
    /\ deployed = Cached
    /\ ticks < MaxElapse
    /\ \E d \in ElapseSteps :
         /\ (\E p \in Procs : pc[p] = "config_set") => d <= MaxLatency
         /\ now' = now + d
    /\ ticks' = ticks + 1
    /\ UNCHANGED <<deployed, botConfigCache, failed, persisted, fresh, nreq, botData, botStats, users, pc, req, loc, res>>

----------------------------------------------------------------------------
(* GET /api/wheel-config *)

\* server.js: prizes.filter(prize => prize.isAvailable !== false).map(...)
serverItems(prizes) ==
    LET shown == SelectSeq(prizes, LAMBDA z : z.isAvailable) IN
    [i \in 1..Len(shown) |-> [id |-> shown[i].id, type |-> shown[i].type]]

\* server.js: botRef.get() resolves; 404 for a missing tenant, else the items
ServerWheelConfig(p, b) ==
    /\ deployed = Server
    /\ Accept(p, [NoReq EXCEPT !.op = "wheel-config", !.bot_id = b])
    /\ IF b # TheBot
       THEN Respond(p, [code |-> 404, error |-> "BotNotFound"])
       ELSE Respond(p, [code |-> 200, error |-> "none",
                        items |-> serverItems(botData.prizes)])
    /\ UNCHANGED <<now, ticks, deployed, botConfigCache, failed, persisted, fresh, botData, botStats, users>>

\* routes.js getWheelConfig(botConfig): prizes.map(prize => ({label: prize.text, ...}))
getWheelConfig(prizes) ==
    [i \in 1..Len(prizes) |-> [label |-> prizes[i].id, type |-> prizes[i].type]]

\* routes.js getWheelConfig(null): the six hard-coded prizes
DefaultWheelItems ==
    [i \in 1..6 |-> [label |-> 100 + i,
                     type |-> IF i = 6 THEN "grand_prize" ELSE "points"]]

\* routes.js: getBotConfig resolves; the default items for a missing tenant,
\* else the tenant's
RoutesWheelConfig(p, b) ==
    /\ deployed = Routes
    /\ Accept(p, [NoReq EXCEPT !.op = "wheel-config", !.bot_id = b])
    /\ IF b # TheBot
       THEN Respond(p, [code |-> 200, error |-> "none", is_default |-> TRUE,
                        items |-> DefaultWheelItems])
       ELSE Respond(p, [code |-> 200, error |-> "none", is_default |-> FALSE,
                        items |-> getWheelConfig(botData.prizes)])
    /\ UNCHANGED <<now, ticks, deployed, botConfigCache, failed, persisted, fresh, botData, botStats, users>>

----------------------------------------------------------------------------
(* The clock *)

Tick ==
    /\ ticks < MaxTicks
    /\ \E d \in TickSteps : now' = now + d
    /\ ticks' = ticks + 1
    /\ UNCHANGED <<deployed, botConfigCache, failed, persisted, fresh, nreq, botData, botStats, users, pc, req, loc, res>>

----------------------------------------------------------------------------

Init ==
    /\ now = 0
    /\ ticks = 0
    /\ fresh = 0
    /\ failed = 0
    /\ persisted = {}
    /\ botConfigCache = [b \in BotIds |-> NoEntry]
    /\ nreq = 0
    /\ \E l \in LimitChoices :
         botData = [limits |-> l, prizes |-> WheelPrizes]
    /\ botStats = [totalSpins |-> 0, totalPrizes |-> 0]
    /\ deployed \in {Server, Routes}
    /\ users \in [Users -> {NoDoc, IF deployed = Server THEN NewUserData
                                    ELSE newUser(maxSpins, now)}]
    /\ pc = [p \in Procs |-> "idle"]
    /\ req = [p \in Procs |-> NoReq]
    /\ loc = [p \in Procs |-> NoLoc]
    /\ res = [p \in Procs |-> NoRes]

Next ==
    \/ \E p \in Procs, u \in Callers, b \in BotIds : Status(p, u, b)
    \/ \E p \in Procs : StatusSet(p)
    \/ \E p \in Procs, u \in Callers, b \in BotIds, ref \in Users \cup {NoUser} :
          Spin(p, u, b, ref)
    \/ \E p \in Procs : SpinReferrerGet(p)
    \/ \E p \in Procs : SpinReferrerUpdate(p)
    \/ \E p \in Procs : SpinReferrerFlag(p)
    \/ \E p \in Procs : SpinWrite(p)
    \/ \E p \in Procs : SpinBotUpdate(p)
    \/ \E p \in Procs : SpinPrizeWrite(p)
    \/ \E p \in Procs : SpinBotPrize(p)
    \/ \E p \in Procs, u \in Callers, b \in BotIds, c \in Contacts :
          \E sid \in KnownSpinIds(u) : SubmitLead(p, u, b, sid, c)
    \/ \E p \in Procs, u \in Callers, b \in BotIds :
          \E sid \in KnownSpinIds(u) : LeadFallback(p, u, b, sid)
    \/ \E p \in Procs : LeadWrite(p)
    \/ \E p \in Procs, u \in Callers, b \in BotIds : RoutesSpin(p, u, b)
    \/ \E p \in Procs : CreateUserGet(p)
    \/ \E p \in Procs : CreateUserSet(p)
    \/ \E p \in Procs : SaveSpinGet(p)
    \/ \E p \in Procs : SaveSpinUpdate(p)
    \/ \E p \in Procs : RoutesSpinResult(p)
    \/ Tick

Spec == Init /\ [][Next]_vars

\* The spin alone, with a store whose operations can fail, in the three
\* builds: one caller, two spins a day, the caller's record present or not.
InitFail ==
    /\ now = 0
    /\ ticks = 0
    /\ fresh = 0
    /\ failed = 0
    /\ persisted = {}
    /\ botConfigCache = [b \in BotIds |-> NoEntry]
    /\ nreq = 0
    /\ \E l \in {c \in LimitChoices : c.spinsPerDay = 2} :
         botData = [limits |-> l, prizes |-> WheelPrizes]
    /\ botStats = [totalSpins |-> 0, totalPrizes |-> 0]
    /\ deployed \in {Server, Routes, RoutesTx}
    /\ users \in [Users -> {NoDoc, IF deployed = Server THEN NewUserData
                                    ELSE newUser(maxSpins, now)}]
    /\ users["u2"] = NoDoc
    /\ pc = [p \in Procs |-> "idle"]
    /\ req = [p \in Procs |-> NoReq]
    /\ loc = [p \in Procs |-> NoLoc]
    /\ res = [p \in Procs |-> NoRes]

NextFail ==
    \/ \E p \in Procs, u \in Callers, b \in BotIds : Spin(p, u, b, NoUser)
    \/ \E p \in Procs : SpinWrite(p)
    \/ \E p \in Procs : SpinWriteFails(p)
    \/ \E p \in Procs : SpinBotUpdate(p)
    \/ \E p \in Procs : SpinPrizeWrite(p)
    \/ \E p \in Procs : SpinBotPrize(p)
    \/ \E p \in Procs, u \in Callers, b \in BotIds : RoutesSpin(p, u, b)
    \/ \E p \in Procs : CreateUserGet(p)
    \/ \E p \in Procs : CreateUserSet(p)
    \/ \E p \in Procs : SaveSpinGet(p)
    \/ \E p \in Procs : SaveSpinUpdate(p)
    \/ \E p \in Procs : SaveSpinFails(p)
    \/ \E p \in Procs : SaveSpinTx(p)
    \/ \E p \in Procs : SaveSpinTxFails(p)
    \/ \E p \in Procs : FallbackGet(p)
    \/ \E p \in Procs : FallbackUpdate(p)
    \/ \E p \in Procs : FallbackFails(p)
    \/ \E p \in Procs : RoutesSpinResult(p)
    \/ Tick

SpecFail == InitFail /\ [][NextFail]_vars

\* The spin and the wheel configuration, one request at a time, over every
\* prize table: one caller whose record exists, two spins a day.
InitPrize ==
    /\ now = 0
    /\ ticks = 0
    /\ fresh = 0
    /\ failed = 0
    /\ persisted = {}
    /\ botConfigCache = [b \in BotIds |-> NoEntry]
    /\ nreq = 0
    /\ \E l \in {c \in LimitChoices : c.spinsPerDay = 2}, t \in PrizeTables :
         botData = [limits |-> l, prizes |-> t]
    /\ botStats = [totalSpins |-> 0, totalPrizes |-> 0]
    /\ deployed \in {Server, Routes}
    /\ users = [u \in Users |->
                  IF u \in Callers
                  THEN IF deployed = Server THEN NewUserData ELSE newUser(maxSpins, now)
                  ELSE NoDoc]
    /\ pc = [p \in Procs |-> "idle"]
    /\ req = [p \in Procs |-> NoReq]
    /\ loc = [p \in Procs |-> NoLoc]
    /\ res = [p \in Procs |-> NoRes]

NextPrize ==
    \/ \E u \in Callers, b \in BotIds : Spin(1, u, b, NoUser)
    \/ SpinWrite(1)
    \/ SpinBotUpdate(1)
    \/ SpinPrizeWrite(1)
    \/ SpinBotPrize(1)
    \/ \E u \in Callers, b \in BotIds : RoutesSpin(1, u, b)
    \/ SaveSpinGet(1)
    \/ SaveSpinUpdate(1)
    \/ RoutesSpinResult(1)
    \/ \E b \in BotIds : ServerWheelConfig(1, b)
    \/ \E b \in BotIds : RoutesWheelConfig(1, b)
    \/ Tick

SpecPrize == InitPrize /\ [][NextPrize]_vars

\* The spin of server.js with its referral step and its notification, over
\* a store and a notification channel that can fail: the tenant has a
\* botToken, both users have a record, two spins a day.
InitRef ==
    /\ now = 0
    /\ ticks = 0
    /\ fresh = 0
    /\ failed = 0
    /\ persisted = {}
    /\ botConfigCache = [b \in BotIds |-> NoEntry]
    /\ nreq = 0
    /\ \E l \in {c \in LimitChoices : c.spinsPerDay # 1} :
         botData = [limits |-> l, prizes |-> WheelPrizes]
    /\ botStats = [totalSpins |-> 0, totalPrizes |-> 0]
    /\ deployed = Server
    /\ users = [u \in Users |-> NewUserData]
    /\ pc = [p \in Procs |-> "idle"]
    /\ req = [p \in Procs |-> NoReq]
    /\ loc = [p \in Procs |-> NoLoc]
    /\ res = [p \in Procs |-> NoRes]

NextRef ==
    \/ \E p \in Procs, u \in Callers, b \in BotIds, ref \in Users \cup {NoUser} :
          Spin(p, u, b, ref)
    \/ \E p \in Procs : SpinReferrerGet(p)
    \/ \E p \in Procs : SpinReferrerUpdate(p)
    \/ \E p \in Procs : SpinReferrerUpdateFails(p)
    \/ \E p \in Procs : SpinReferrerFlag(p)
    \/ \E p \in Procs : SpinReferrerFlagFails(p)
    \/ \E p \in Procs : SpinWrite(p)
    \/ \E p \in Procs : SpinWriteFails(p)
    \/ \E p \in Procs : SpinBotUpdate(p)
    \/ \E p \in Procs : SpinPrizeWrite(p)
    \/ \E p \in Procs : SpinBotPrizeToken(p)
    \/ \E p \in Procs : SpinNotify(p)
    \/ \E p \in Procs : SpinNotifyFails(p)
    \/ Tick

SpecRef == InitRef /\ [][NextRef]_vars

\* getBotConfig of part_000 alone: an empty cache, overlapping lookups
InitCache ==
    /\ now = 0
    /\ ticks = 0
    /\ fresh = 0
    /\ failed = 0
    /\ persisted = {}
    /\ botConfigCache = [b \in BotIds |-> NoEntry]
    /\ nreq = 0
    /\ botData = [limits |-> [spinsPerDay |-> 2, cooldownSeconds |-> 1],
                  prizes |-> WheelPrizes]
    /\ botStats = [totalSpins |-> 0, totalPrizes |-> 0]
    /\ deployed = Cached
    /\ users = [u \in Users |-> NoDoc]
    /\ pc = [p \in Procs |-> "idle"]
    /\ req = [p \in Procs |-> NoReq]
    /\ loc = [p \in Procs |-> NoLoc]
    /\ res = [p \in Procs |-> NoRes]

NextCache ==
    \/ \E p \in Procs, b \in BotIds : GetBotConfig(p, b)
    \/ \E p \in Procs : ConfigRead(p)
    \/ \E p \in Procs : ConfigSet(p)
    \/ \E p \in Procs : ConfigReadFails(p)
    \/ Elapse

SpecCache == InitCache /\ [][NextCache]_vars

----------------------------------------------------------------------------
(* Properties *)

Exists(u) == users[u].exists

\* createdAt of a stored spin, ms
createdAt(spin) == IF deployed = Server THEN getTime(spin.date) ELSE spin.timestamp

\* totalSpins of a user record
TotalSpins(doc) == IF deployed = Server THEN doc.totalSpins ELSE doc.total_spins

\* number of stored spins of a user record created on a calendar day
SpinsOnDay(doc, day) ==
    Cardinality({k \in 1..Len(doc.spins) : toDateString(createdAt(doc.spins[k])) = day})

\* the request in slot p is answered in this step
Responds(p) == pc'[p] = "idle" /\ (pc[p] # "idle" \/ nreq' = nreq + 1)

\* the slot the request of an Accept step goes to
Accepted(p) ==
    /\ nreq' = nreq + 1
    /\ Idle(p)
    /\ \A q \in Procs : Idle(q) => p <= q

\* C1: daily limit invariant -- for every user, the number of recorded spins
\* whose date lies in one calendar day never exceeds the tenant's
\* maxSpinsPerDay (stated for a limit of at least 1; the limit 0 is the case
\* of C32).
C1_DailyLimitInvariant ==
    botData.limits.spinsPerDay >= 1 =>
      \A u \in Users : Exists(u) =>
        \A j \in 1..Len(users[u].spins) :
          SpinsOnDay(users[u], toDateString(createdAt(users[u].spins[j])))
            <= botData.limits.spinsPerDay

\* two spin requests for the same existing user were in flight together, they
\* are the only requests so far, the clock has not moved, and both are answered
TwoSimultaneousSpinsDone ==
    /\ nreq = 2
    /\ ticks = 0
    /\ \A p \in Procs : /\ Idle(p)
                        /\ req[p].op = "spin"
                        /\ req[p].bot_id = TheBot
    /\ req[1].user_id = req[2].user_id
    /\ Exists(req[1].user_id)

\* C2: concurrent spin race -- two simultaneous spins of one user with
\* maxSpinsPerDay = 1 and no prior spin today end in exactly one success and
\* one DailyLimitReached.
C2_ConcurrentSpinRace ==
    (botData.limits.spinsPerDay = 1 /\ TwoSimultaneousSpinsDone) =>
      \E p, q \in Procs :
        /\ p # q
        /\ res[p].code = 200
        /\ res[q].error = "DailyLimitReached"

\* C3: cooldown invariant -- consecutive recorded spins of a user are at least
\* cooldownSeconds apart.
C3_CooldownInvariant ==
    \A u \in Users : Exists(u) =>
      \A j \in 1..(Len(users[u].spins) - 1) :
        createdAt(users[u].spins[j + 1]) - createdAt(users[u].spins[j])
          >= botData.limits.cooldownSeconds * SecondMs

\* C4: lead-state exclusivity -- no spin record ever carries both terminal
\* lead marks (Submitted and FallenBack).
C4_LeadStateExclusive ==
    \A u \in Users : (deployed = Server /\ Exists(u)) =>
      \A j \in 1..Len(users[u].spins) :
        ~(users[u].spins[j].lead_submitted /\ users[u].spins[j].lead_fallback)

\* C5: idempotent referral -- however often the referral path runs for a pair
\* (referrer, referred), the referrer is credited once for it: referrals never
\* exceeds the number of users that can have named the referrer.
C5_IdempotentReferral ==
    \A r \in Users : Exists(r) =>
      users[r].referrals <= Cardinality(Callers \ {r})

\* C6: totalSpins equals the number of SpinRecords in spins, in every state of
\* every user record.
C6_TotalSpinsIsLen ==
    \A u \in Users : Exists(u) => TotalSpins(users[u]) = Len(users[u].spins)

\* the identity of a stored SpinRecord (the lead sub-state is mutable)
SpinKey(s) == <<s.spin_id, IF deployed = Server THEN s.date ELSE s.timestamp>>
SpinKeys(doc) == IF doc.exists THEN {SpinKey(doc.spins[j]) : j \in 1..Len(doc.spins)} ELSE {}

\* C7: nothing deletes records -- a SpinRecord once appended is present in
\* every later state.
C7_NoRecordDeleted ==
    [][\A u \in Users : SpinKeys(users[u]) \subseteq SpinKeys(users'[u])]_vars

\* C8: referrerProcessed never reverts from true to false.
C8_ReferrerProcessedNeverReverts ==
    [][\A u \in Users :
         (deployed = Server /\ Exists(u) /\ users[u].referrer_processed)
           => (users'[u].exists /\ users'[u].referrer_processed)]_vars

\* C9: a spin attempt rejected for eligibility (DailyLimitReached or
\* CoolingDown) leaves the user's record, the referrer's record and the
\* tenant's counters as they were.
C9_RejectedSpinTouchesNothing ==
    [][\A p \in Procs :
         ( /\ Responds(p)
           /\ req'[p].op = "spin"
           /\ res'[p].error \in {"DailyLimitReached", "CoolingDown"} )
         => (users' = users /\ botStats' = botStats)]_vars

\* a spin of a user with recorded spins has been rejected for eligibility
C9_Witness ==
    \E p \in Procs :
      /\ Idle(p)
      /\ req[p].op = "spin"
      /\ res[p].error \in {"DailyLimitReached", "CoolingDown"}
      /\ Exists(req[p].user_id)
      /\ Len(users[req[p].user_id].spins) >= 1

\* C10: the daily limit is evaluated first and decides the error -- an attempt
\* made when today's count is >= maxSpinsPerDay fails with DailyLimitReached,
\* also while the cooldown is active, and CoolingDown is answered only when
\* the daily limit is not reached.
C10_DailyLimitFirst ==
    [][\A p \in Procs :
         ( /\ deployed = Server
           /\ Accepted(p)
           /\ req'[p].op = "spin"
           /\ req'[p].bot_id = TheBot
           /\ Exists(req'[p].user_id) )
         => LET count == spinsToday(users[req'[p].user_id], now) IN
            /\ (count >= botData.limits.spinsPerDay
                  => (pc'[p] = "idle" /\ res'[p].error = "DailyLimitReached"))
            /\ ((pc'[p] = "idle" /\ res'[p].error = "CoolingDown")
                  => count < botData.limits.spinsPerDay)]_vars

\* the eligibility errors of a spin
EligibilityErrors == {"DailyLimitReached", "CoolingDown", "NoAttemptsLeft"}

\* the user has spun before, none of the spins is of the day of t, and the
\* cooldown of every one of them has elapsed at t
DayHasChanged(doc, t) ==
    /\ Len(doc.spins) >= 1
    /\ SpinsOnDay(doc, toDateString(t)) = 0
    /\ \A k \in 1..Len(doc.spins) :
         createdAt(doc.spins[k])
           + OrDefault(botData.limits.cooldownSeconds, DefaultCooldownSeconds) * SecondMs
           <= t

\* C11: day rollover restores eligibility -- a spin attempt of a user whose
\* recorded spins all lie on earlier calendar days, made after the cooldown has
\* elapsed and with no reset in between, is not rejected for eligibility
\* (stated for a daily limit of at least 1).
C11_DayRolloverRestores ==
    [][\A p \in Procs :
         ( /\ Responds(p)
           /\ req'[p].op = "spin"
           /\ req'[p].bot_id = TheBot
           /\ botData.limits.spinsPerDay >= 1
           /\ Exists(req'[p].user_id)
           /\ DayHasChanged(users[req'[p].user_id], now) )
         => res'[p].error \notin EligibilityErrors]_vars

\* C12: when a store operation fails during a spin the spin is aborted with
\* an error: a spin request is never answered with success (a prize and a
\* spin_id) for a spin that was not persisted.
C12_NoSuccessWithoutPersist ==
    [][\A p \in Procs :
         (Responds(p) /\ req'[p].op = "spin" /\ res'[p].code = 200)
           => res'[p].spin_id \in persisted']_vars

\* C13: a spin attempt whose transaction failed with an unknown commit status
\* never appends more than one spin record and never increments totalSpins
\* more than once, even if the transaction had in fact committed: a user
\* record never holds more spin records, nor a greater totalSpins, than the
\* number of spin attempts made.
C13_OneRecordPerAttempt ==
    \A u \in Users :
      Exists(u) =>
        /\ Len(users[u].spins) <= nreq
        /\ TotalSpins(users[u]) <= nreq

\* the weight accumulated over the first i prizes of a table
RECURSIVE cumulativeWeight(_, _)
cumulativeWeight(prizes, i) ==
    IF i = 0 THEN 0 ELSE cumulativeWeight(prizes, i - 1) + prizes[i].probability

\* the position of the first prize whose running cumulative weight exceeds r
firstExceeding(prizes, r) ==
    CHOOSE i \in 1..Len(prizes) :
        /\ cumulativeWeight(prizes, i) > r
        /\ \A j \in 1..(i - 1) : cumulativeWeight(prizes, j) <= r

\* C14: prize selector -- for a draw r in [0, totalWeight) the selector
\* returns the first prize, in table order, whose running cumulative weight
\* exceeds r.  server.js walks the available prizes and r is a whole weight;
\* routes.js walks the table in tenths of a weight.
C14_FirstExceedingSelected ==
    /\ deployed = Server =>
         \A r \in 0 .. (totalProbability(availablePrizes) - 1) :
            selectedPrize(availablePrizes, r)
              = availablePrizes[firstExceeding(availablePrizes, r)]
    /\ deployed = Routes =>
         \A r \in 0 .. (10 * totalProbability(botData.prizes) - 1) :
            selectPrize(botData.prizes, r).label
              = botData.prizes[firstExceeding(botData.prizes, r \div 10)].id

\* the draws of routes.js, in tenths of a weight, that select the prize at
\* position i of the table
RoutesDrawsSelecting(prizes, i) ==
    {r \in 0 .. (totalWeight(prizes) - 1) : selectPrize(prizes, r).label = prizes[i].id}

\* the draws of server.js that select the prize at position i
ServerDrawsSelecting(prizes, i) ==
    {r \in 0 .. (totalProbability(prizes) - 1) : selectedPrize(prizes, r) = prizes[i]}

\* C15: weighted selection distribution -- when the total weight is positive
\* the share of the draws that select a prize is weight / totalWeight: for
\* the whole draws of server.js the number of draws selecting a prize is its
\* weight, so a prize of weight 0 is never selected.
C15_SelectionFrequency ==
    /\ (deployed = Server /\ totalProbability(availablePrizes) > 0) =>
         \A i \in 1..Len(availablePrizes) :
            Cardinality(ServerDrawsSelecting(availablePrizes, i))
              = availablePrizes[i].probability
    /\ (deployed = Routes /\ totalProbability(botData.prizes) > 0) =>
         \A i \in 1..Len(botData.prizes) :
            Cardinality(RoutesDrawsSelecting(botData.prizes, i))
                * totalProbability(botData.prizes)
              = botData.prizes[i].probability * totalWeight(botData.prizes)

\* C16: when the walk ends with the draw unconsumed (the draw is not below
\* the weight accumulated over the whole table: every weight is zero, or
\* rounding left the draw at the total), the selector returns the last prize
\* in table order.
C16_FallbackIsLastPrize ==
    /\ (deployed = Server /\ Len(availablePrizes) >= 1) =>
         \A r \in 0 .. totalProbability(availablePrizes) :
            r >= cumulativeWeight(availablePrizes, Len(availablePrizes))
              => selectedPrize(availablePrizes, r)
                   = availablePrizes[Len(availablePrizes)]
    /\ deployed = Routes =>
         \A r \in 0 .. totalWeight(botData.prizes) :
            r >= totalWeight(botData.prizes)
              => selectPrize(botData.prizes, r).label
                   = botData.prizes[Len(botData.prizes)].id

\* C17: when the total weight of the tenant's available prizes is not
\* positive (no available prize, or every available weight zero) no spin
\* succeeds and none is recorded: no user record holds a spin and no spin
\* request has been answered with success.
C17_NoPrizesNoSpin ==
    totalProbability(availablePrizes) <= 0 =>
        /\ \A u \in Users : Exists(u) => Len(users[u].spins) = 0
        /\ \A p \in Procs : ~(req[p].op = "spin" /\ res[p].code = 200)

\* the id of the prize a stored spin record refers to
PrizeOf(spin) == IF deployed = Server THEN spin.prize_id ELSE spin.prize

\* C18: every prize awarded by a spin is one of the tenant's currently
\* available prizes: no stored spin record refers to a prize whose
\* isAvailable flag is false in the tenant's table.
C18_AwardedPrizeAvailable ==
    \A u \in Users :
      Exists(u) =>
        \A k \in 1..Len(users[u].spins) :
          \E i \in 1..Len(botData.prizes) :
            /\ botData.prizes[i].id = PrizeOf(users[u].spins[k])
            /\ botData.prizes[i].isAvailable

\* totalPrizes of a user record
TotalPrizes(doc) == IF deployed = Server THEN doc.totalPrizes ELSE doc.total_prizes

\* lastSpinAt of a user record, ms
lastSpinAt(doc) == IF deployed = Server THEN getTime(doc.lastSpin) ELSE getTime(doc.last_spin)

\* the type of the prize a stored spin record refers to
rewardKind(spin) == spin.prize_type

\* what one successful spin does to the user record it read
SpinEffect(before, after) ==
    LET n == Len(after.spins) IN
    /\ n = Len(before.spins) + 1
    /\ \A k \in 1..Len(before.spins) : after.spins[k] = before.spins[k]
    /\ TotalSpins(after) = TotalSpins(before) + 1
    /\ lastSpinAt(after) = createdAt(after.spins[n])
    /\ TotalPrizes(after) = TotalPrizes(before)
                              + (IF rewardKind(after.spins[n]) # "none" THEN 1 ELSE 0)

\* C19: a successful spin appends exactly one spin record, increments
\* totalSpins by exactly 1, sets lastSpinAt to the spin's time, and
\* increments totalPrizes by exactly 1 if the selected prize's kind is not
\* none and by 0 otherwise (requests served one at a time: the record when
\* the spin is answered against the record the spin read).
C19_SuccessfulSpinEffects ==
    [][\A p \in Procs :
         (Responds(p) /\ req'[p].op = "spin" /\ res'[p].code = 200)
           => SpinEffect(loc[p].userData, users'[req'[p].user_id])]_vars

\* the referral fields of a user record
ReferralFields(doc) ==
    IF doc.exists /\ deployed = Server
    THEN <<doc.invitedUsers, doc.referrals, doc.referrer_processed, doc.referrer_id>>
    ELSE << >>

\* the preconditions of referral attribution for a spin request r, on the
\* stored records
ReferralAllowed(r) ==
    /\ hasReferrer(r)
    /\ users[r.referrer_id].exists
    /\ users[r.user_id].exists
    /\ ~users[r.user_id].referrer_processed

\* the handler of the spin request in slot p takes this step
SpinStep(p) == req'[p].op = "spin" /\ (pc'[p] # pc[p] \/ Accepted(p))

\* C20: a spin changes a referrer's record only if referrerId is present,
\* differs from userId, the referrer's record exists and the spinning user's
\* referrerProcessed is false; in every other case no step of the spin
\* changes invitedUsers or referrals of any user, nor referrer_processed or
\* referrer_id.
C20_ReferralOnlyWhenAllowed ==
    [][\A p \in Procs :
         (deployed = Server /\ SpinStep(p) /\ ~ReferralAllowed(req'[p]))
           => \A u \in Users : ReferralFields(users'[u]) = ReferralFields(users[u])]_vars

\* C21: referral ordering -- referrer_processed is set only after the update
\* of the referrer's invitedUsers and referrals has been applied: in every
\* state a user whose referrer_processed is true names a referrer whose
\* record lists the user and counts at least one referral.
C21_FlagAfterReferrerUpdate ==
    \A u \in Users :
      (Exists(u) /\ users[u].referrer_processed) =>
        /\ users[u].referrer_id \in Users
        /\ Exists(users[u].referrer_id)
        /\ u \in users[users[u].referrer_id].invitedUsers
        /\ users[users[u].referrer_id].referrals >= 1

\* a referred user has been flagged, and a referrer update has failed
C21_Witness ==
    /\ users["u1"].referrer_processed
    /\ users["u1"].referrer_id = "u2"
    /\ failed >= 1

\* no two requests have overlapped so far: only the first slot was ever used
OneAtATime == \A p \in Procs : p # 1 => req[p] = NoReq

\* C22: a spin that stops between the referrer's update and the referred
\* user's flag leaves the referrer under-counted, never over-counted: also
\* when the referred user spins again with the same referrer, referrals of a
\* referrer never exceeds the number of distinct users it invited (requests
\* served one at a time; overlapping spins are the case of C5).
C22_NeverOverCounted ==
    OneAtATime =>
      \A r \in Users :
        Exists(r) => users[r].referrals <= Cardinality(users[r].invitedUsers)

\* leadState of a stored spin is terminal: Submitted or FallenBack
Terminal(spin) == spin.lead_submitted \/ spin.lead_fallback

\* the stored spin of user u that a lead request names is terminal
NamedSpinTerminal(u, sid) ==
    /\ Exists(u)
    /\ \E k \in 1..Len(users[u].spins) :
         users[u].spins[k].spin_id = sid /\ Terminal(users[u].spins[k])

\* C23: submitLead or fallbackLead on a spin whose leadState is already
\* terminal returns success and leaves the whole user record unchanged; a
\* second submitLead, also with other contact data, changes nothing.
C23_TerminalLeadUnchanged ==
    [][\A p \in Procs :
         ( /\ deployed = Server
           /\ Responds(p)
           /\ req'[p].op \in {"submit-lead", "lead-fallback"}
           /\ req'[p].bot_id = TheBot
           /\ NamedSpinTerminal(req'[p].user_id, req'[p].spin_id) )
         => (res'[p].code = 200 /\ users' = users)]_vars

\* C24: spin has create-if-absent semantics -- a spin is never refused
\* because the user has no stored record; the record is created and, the
\* tenant having a selectable prize, a spin answered with success leaves a
\* record that holds the spin and counts it.
C24_SpinCreatesUser ==
    [][\A p \in Procs :
         (Responds(p) /\ req'[p].op = "spin" /\ req'[p].bot_id = TheBot)
           => /\ res'[p].error # "UserNotFound"
              /\ res'[p].code = 200 =>
                   /\ users'[req'[p].user_id].exists
                   /\ Len(users'[req'[p].user_id].spins) >= 1
                   /\ TotalSpins(users'[req'[p].user_id]) >= 1]_vars

\* C25: bounded staleness of the tenant configuration cache -- under every
\* interleaving of lookups, every configuration getBotConfig returns was
\* read from the tenant store at most one TTL before it is returned.
C25_BoundedStaleness ==
    [][\A p \in Procs :
         (Responds(p) /\ req'[p].op = "getBotConfig" /\ res'[p].code = 200)
           => now - res'[p].config.readAt <= CACHE_TTL]_vars

\* C26: a failure of the outbound notification after a spin never changes
\* the spin's outcome: whatever the notification does, the step that ends it
\* leaves the stored spin record and all counters in place and answers the
\* caller with success for that spin.
C26_NotificationNeverPropagates ==
    [][\A p \in Procs :
         (pc[p] = "spin_notify" /\ Responds(p)) =>
            /\ res'[p].code = 200
            /\ res'[p].spin_id = loc[p].spin_id
            /\ users' = users
            /\ botStats' = botStats
            /\ loc[p].spin_id \in persisted']_vars

\* the only request so far was a spin answered with success although a call
\* failed: its notification
C26_Witness ==
    /\ nreq = 1
    /\ failed = 1
    /\ req[1].op = "spin"
    /\ res[1].code = 200
    /\ Len(users["u1"].spins) = 1

\* C27: every operation invoked with a tenant id that has no stored
\* configuration fails with TenantNotFound and creates or modifies no user
\* record; none proceeds with a default configuration.
C27_UnknownTenantFails ==
    [][\A p \in Procs :
         (Responds(p) /\ req'[p].bot_id # TheBot)
           => (res'[p].error = "BotNotFound" /\ users' = users)]_vars

\* the prize an item of a wheel configuration stands for
ItemPrize(item) == IF deployed = Server THEN item.id ELSE item.label

\* C30: getWheelConfig returns the tenant's prizes as a list in table order,
\* one item per available prize and no item for an unavailable prize.
C30_WheelConfigListsAvailable ==
    [][\A p \in Procs :
         (Responds(p) /\ req'[p].op = "wheel-config" /\ req'[p].bot_id = TheBot)
           => /\ res'[p].code = 200
              /\ [i \in 1..Len(res'[p].items) |-> ItemPrize(res'[p].items[i])]
                   = [i \in 1..Len(availablePrizes) |-> availablePrizes[i].id]]_vars

\* the stored spin records, each with its owner and position
StoredSpins ==
    {<<u, k>> \in Users \X (1..MaxReq) : Exists(u) /\ k <= Len(users[u].spins)}

\* C28: no two spin records ever share a spin_id, across all users,
\* including two spins of one user created in the same clock tick.
C28_SpinIdsUnique ==
    \A a, b \in StoredSpins :
       a # b => users[a[1]].spins[a[2]].spin_id # users[b[1]].spins[b[2]].spin_id

\* the handler of the status request in slot p takes this step
StatusStep(p) == req'[p].op = "status" /\ (pc'[p] # pc[p] \/ Accepted(p))

\* C29: getStatus is read-only for an existing user -- no step of a status
\* request changes the record of its user when that record exists, also when
\* the request overlaps user creation, a spin or another status request.
C29_StatusReadOnly ==
    [][\A p \in Procs :
         (StatusStep(p) /\ Exists(req'[p].user_id))
           => users'[req'[p].user_id] = users[req'[p].user_id]]_vars

\* the lead marks a stored spin has are kept by a step, and a stored contact
\* stays as it is
LeadKept(old, new) ==
    /\ old.lead_submitted => (new.lead_submitted /\ new.lead_data = old.lead_data)
    /\ old.lead_fallback => new.lead_fallback

\* C31: when submitLead and fallbackLead run concurrently on one Pending
\* spin, the terminal state written first stays: the write of one of the two
\* requests never removes a terminal mark that is stored for the spin, and a
\* contact that was stored is never lost from the record.
C31_FirstLeadWriteStays ==
    [][\A p, q \in Procs :
         (/\ deployed = Server
          /\ p # q
          /\ {req[p].op, req[q].op} = {"submit-lead", "lead-fallback"}
          /\ req[p].user_id = req[q].user_id
          /\ req[p].spin_id = req[q].spin_id
          /\ pc[p] = "lead_write" /\ Responds(p)
          /\ Len(users'[req[p].user_id].spins) = Len(users[req[p].user_id].spins))
         => LET u == req[p].user_id IN
            \A k \in 1..Len(users[u].spins) :
                users[u].spins[k].spin_id = req[p].spin_id =>
                    LeadKept(users[u].spins[k], users'[u].spins[k])]_vars

\* C32: the configured limits are honoured for every value, 0 included -- with
\* maxSpinsPerDay = 0 every spin fails with DailyLimitReached, with
\* cooldownSeconds = 0 no spin is rejected with CoolingDown, and CoolingDown
\* is answered only when lastSpinAt is set and now < lastSpinAt +
\* cooldownSeconds.
C32_ZeroLimitsHonoured ==
    [][\A p \in Procs :
         ( /\ deployed = Server
           /\ Accepted(p)
           /\ req'[p].op = "spin"
           /\ req'[p].bot_id = TheBot
           /\ Exists(req'[p].user_id) )
         => LET userData == users[req'[p].user_id]
                rejected(e) == pc'[p] = "idle" /\ res'[p].error = e
            IN
            /\ botData.limits.spinsPerDay = 0 => rejected("DailyLimitReached")
            /\ botData.limits.cooldownSeconds = 0 => ~rejected("CoolingDown")
            /\ rejected("CoolingDown") =>
                 /\ userData.lastSpin # NoStamp
                 /\ now < getTime(userData.lastSpin)
                            + botData.limits.cooldownSeconds * SecondMs]_vars

\* C33: the cooldown reported by getStatus is 0 when no cooldown is active and
\* otherwise the remaining time in whole seconds, rounded up -- the number a
\* spin at that moment reports with CoolingDown; it is never negative.
C33_StatusCooldownSeconds ==
    [][\A p \in Procs :
         ( /\ deployed = Server
           /\ Accepted(p)
           /\ req'[p].op = "status"
           /\ req'[p].bot_id = TheBot
           /\ Exists(req'[p].user_id) )
         => LET userData == users[req'[p].user_id] IN
            /\ pc'[p] = "idle"
            /\ res'[p].cooldown >= 0
            /\ res'[p].cooldown =
                 IF coolingDown(userData, now)
                 THEN CeilDiv(cooldownEnd(userData) - now, SecondMs)
                 ELSE 0]_vars

----------------------------------------------------------------------------
(* routes/routes.js: POST /api/user-status *)

\* toISOString().split('T')[0]: the calendar day of a time
toISODate(t) == t \div DayMs

\* userData.spins.filter(spin => spinDate === today).length
RECURSIVE CountSpinsOfDate(_, _)
CountSpinsOfDate(spins, today) ==
    IF spins = << >> THEN 0
    ELSE (IF toISODate(Head(spins).timestamp) = today THEN 1 ELSE 0)
         + CountSpinsOfDate(Tail(spins), today)

\* cooldownRemaining of the user-status response
cooldownRemaining(userData, t) ==
    IF userData.last_spin = NoStamp THEN 0
    ELSE LET end == getTime(userData.last_spin)
                      + OrDefault(botData.limits.cooldownSeconds,
                                  DefaultCooldownSeconds) * SecondMs
         IN IF t < end THEN CeilDiv(end - t, SecondMs) ELSE 0

\* res.json({success: true, attempts_left, spins_today, ..., cooldown})
UserStatusResponse(userData, t) ==
    [ code |-> 200, error |-> "none",
      attempts_left |-> Max0(maxSpins - CountSpinsOfDate(userData.spins, toISODate(t))),
      spins_today |-> CountSpinsOfDate(userData.spins, toISODate(t)),
      total_spins |-> userData.total_spins,
      total_prizes |-> userData.total_prizes,
      referrals |-> Cardinality(userData.invited_users),
      cooldown |-> cooldownRemaining(userData, t) ]

\* the user record is in hand: handleReferrer for a new user that names
\* another user, otherwise the response
UserStatusCreated(p, userData) ==
    IF hasReferrer(req[p])
    THEN /\ pc' = [pc EXCEPT ![p] = "status_referrer"]
         /\ loc' = [loc EXCEPT ![p] = [NoLoc EXCEPT !.userData = userData]]
         /\ UNCHANGED res
    ELSE Respond(p, UserStatusResponse(userData, now))

\* the request arrives; getBotConfig and getUserData resolve
UserStatus(p, u, b, ref) ==
    /\ deployed = Routes
    /\ Accept(p, [NoReq EXCEPT !.op = "user-status", !.user_id = u, !.bot_id = b,
                               !.referrer_id = ref])
    /\ IF b # TheBot
       THEN Respond(p, [code |-> 404, error |-> "BotNotFound"])
       ELSE IF users[u].exists
       THEN Respond(p, UserStatusResponse(users[u], now))
       ELSE /\ pc' = [pc EXCEPT ![p] = "status_create_get"]
            /\ loc' = [loc EXCEPT ![p] = NoLoc]
            /\ res' = [res EXCEPT ![p] = NoRes]
    /\ UNCHANGED <<now, ticks, deployed, botConfigCache, failed, persisted, fresh, botData, botStats, users>>

\* createUser: await userRef.get(); an existing document is returned as it is
UserStatusCreateGet(p) ==
    /\ pc[p] = "status_create_get"
    /\ IF users[req[p].user_id].exists
       THEN UserStatusCreated(p, users[req[p].user_id])
       ELSE /\ pc' = [pc EXCEPT ![p] = "status_create_set"]
            /\ loc' = [loc EXCEPT ![p] =
                         [NoLoc EXCEPT !.userData = newUser(maxSpins, now)]]
            /\ UNCHANGED res
    /\ UNCHANGED <<now, ticks, deployed, botConfigCache, failed, persisted, fresh, nreq, botData, botStats, users, req>>

\* createUser: await userRef.set(newUser): the whole document is replaced
UserStatusCreateSet(p) ==
    /\ pc[p] = "status_create_set"
    /\ users' = [users EXCEPT ![req[p].user_id] = loc[p].userData]
    /\ UserStatusCreated(p, loc[p].userData)
    /\ UNCHANGED <<now, ticks, deployed, botConfigCache, failed, persisted, fresh, nreq, botData, botStats, req>>

\* handleReferrer: await getUserData(botId, referrerId).  For a referrer that
\* exists the arguments of updateUser are built from
\* firebaseService.getDatabase().FieldValue, which is undefined: the
\* TypeError is caught and logged, updateUser is not called.  Nothing is
\* written either way; the response follows.
UserStatusReferrer(p) ==
    /\ pc[p] = "status_referrer"
    /\ Respond(p, UserStatusResponse(loc[p].userData, now))
    /\ UNCHANGED <<now, ticks, deployed, botConfigCache, failed, persisted, fresh, nreq, botData, botStats, users, req>>

\* routes.js alone: user-status and spin requests that overlap
InitStatus ==
    /\ now = 0
    /\ ticks = 0
    /\ fresh = 0
    /\ failed = 0
    /\ persisted = {}
    /\ botConfigCache = [b \in BotIds |-> NoEntry]
    /\ nreq = 0
    /\ \E l \in LimitChoices :
         botData = [limits |-> l, prizes |-> WheelPrizes]
    /\ botStats = [totalSpins |-> 0, totalPrizes |-> 0]
    /\ deployed = Routes
    /\ users \in [Users -> {NoDoc, newUser(maxSpins, now)}]
    /\ pc = [p \in Procs |-> "idle"]
    /\ req = [p \in Procs |-> NoReq]
    /\ loc = [p \in Procs |-> NoLoc]
    /\ res = [p \in Procs |-> NoRes]

NextStatus ==
    \/ \E p \in Procs, u \in Callers, b \in BotIds, ref \in Users \cup {NoUser} :
          UserStatus(p, u, b, ref)
    \/ \E p \in Procs : UserStatusCreateGet(p)
    \/ \E p \in Procs : UserStatusCreateSet(p)
    \/ \E p \in Procs : UserStatusReferrer(p)
    \/ \E p \in Procs, u \in Callers, b \in BotIds : RoutesSpin(p, u, b)
    \/ \E p \in Procs : CreateUserGet(p)
    \/ \E p \in Procs : CreateUserSet(p)
    \/ \E p \in Procs : SaveSpinGet(p)
    \/ \E p \in Procs : SaveSpinUpdate(p)
    \/ \E p \in Procs : RoutesSpinResult(p)
    \/ Tick

SpecStatus == InitStatus /\ [][NextStatus]_vars

\* C34: getStatus and spin agree on eligibility -- when the status answer
\* that describes the stored record reports attempts left > 0 and cooldown 0,
\* a spin made at that moment is not rejected for eligibility; when it
\* reports 0 attempts left, the spin is rejected.
C34_StatusAndSpinAgree ==
    [][\A p, q \in Procs :
         ( /\ Accepted(p)
           /\ req'[p].op = "spin"
           /\ req'[p].bot_id = TheBot
           /\ Exists(req'[p].user_id)
           /\ q # p
           /\ req[q].op = "user-status"
           /\ req[q].user_id = req'[p].user_id
           /\ pc[q] = "idle"
           /\ res[q] = UserStatusResponse(users[req'[p].user_id], now) )
         => LET rejected == pc'[p] = "idle" /\ res'[p].error \in EligibilityErrors IN
            /\ (res[q].attempts_left > 0 /\ res[q].cooldown = 0) => ~rejected
            /\ res[q].attempts_left = 0 => rejected]_vars

\* C35: submitLead and fallbackLead change only the lead sub-state of the
\* record they address -- the step that writes for a lead request leaves
\* totalSpins, totalPrizes, lastSpinAt, the number of spin records and every
\* record with another spin id as they are, leaves every other user as it is,
\* and changes nothing at all when no stored record has the spin id.
C35_LeadFrame ==
    [][\A p \in Procs :
         (deployed = Server /\ pc[p] = "lead_write" /\ Responds(p)) =>
            LET u == req[p].user_id
                old == users[u]
                new == users'[u]
            IN
            /\ \A v \in Users \ {u} : users'[v] = users[v]
            /\ new.totalSpins = old.totalSpins
            /\ new.totalPrizes = old.totalPrizes
            /\ new.lastSpin = old.lastSpin
            /\ Len(new.spins) = Len(old.spins)
            /\ \A k \in 1..Len(old.spins) :
                 old.spins[k].spin_id # req[p].spin_id => new.spins[k] = old.spins[k]
            /\ (\A k \in 1..Len(old.spins) : old.spins[k].spin_id # req[p].spin_id)
                 => new = old]_vars

\* referralsCount and invitedUserIds of a user record
referralsCount(doc) == doc.referrals
invitedUserIds(doc) == IF deployed = Server THEN doc.invitedUsers ELSE doc.invited_users

\* C36: in every reachable state referralsCount of a user equals the number
\* of distinct ids in its invitedUserIds.
C36_ReferralsIsInvitedCount ==
    \A r \in Users :
      Exists(r) => referralsCount(users[r]) = Cardinality(invitedUserIds(users[r]))

\* C37: the stored attempts_left is always within 0 .. maxSpinsPerDay and
\* equals maxSpinsPerDay minus the number of today's spins, after any
\* sequence or interleaving of user creation and spins (stated for a record
\* whose counter was set on the current day and for a limit other than 0,
\* the value of C32).
C37_AttemptsLeftIsRemainder ==
    \A u \in Users :
      ( /\ deployed \in {Routes, RoutesTx}
        /\ Exists(u)
        /\ botData.limits.spinsPerDay > 0
        /\ users[u].last_reset_day = toDateString(now) )
      => /\ 0 <= users[u].attempts_left
         /\ users[u].attempts_left <= botData.limits.spinsPerDay
         /\ users[u].attempts_left =
              botData.limits.spinsPerDay
                - CountSpinsSince(users[u].spins, startOfDay(now))

\* C38: lastSpinAt of a user is unset exactly when the user has no spin
\* records, and otherwise equals createdAt of the record appended last.
C38_LastSpinIsLastRecord ==
    \A u \in Users : Exists(u) =>
      IF Len(users[u].spins) = 0
      THEN lastSpinAt(users[u]) = NoTime
      ELSE lastSpinAt(users[u]) = createdAt(users[u].spins[Len(users[u].spins)])

\* C39: a tenant lookup that finds no configuration, or that fails with a
\* store error, stores nothing in the cache and neither replaces nor removes
\* an entry; an entry is written only with a configuration that was loaded
\* for that tenant; and a lookup is answered without the store only from such
\* an entry, so the lookup after a miss queries the store again.
C39_MissNeverCached ==
    [][/\ \A p \in Procs :
            (Responds(p) /\ res'[p].code # 200) => botConfigCache' = botConfigCache
       /\ \A b \in BotIds :
            botConfigCache'[b] # botConfigCache[b] =>
              \E p \in Procs :
                /\ pc[p] = "config_set" /\ Responds(p)
                /\ req[p].bot_id = b
                /\ loc[p].exists
                /\ res'[p].code = 200
                /\ botConfigCache'[b].config = loc[p].config
       /\ \A p \in Procs :
            Accepted(p) =>
              IF botConfigCache[req'[p].bot_id] = NoEntry
              THEN pc'[p] = "config_get"
              ELSE pc'[p] = "idle" =>
                     res'[p].config = botConfigCache[req'[p].bot_id].config]_vars

\* a lookup of the unknown tenant was answered with null while the entry of
\* the known tenant is in the cache, nothing is cached for the unknown
\* tenant, and another lookup of it is waiting for the store
C39_Witness ==
    /\ botConfigCache[TheBot] # NoEntry
    /\ \A b \in BotIds \ {TheBot} : botConfigCache[b] = NoEntry
    /\ \E p, q \in Procs :
         /\ p # q
         /\ req[p].bot_id # TheBot /\ pc[p] = "idle" /\ res[p].code = 404
         /\ req[q].bot_id = req[p].bot_id /\ pc[q] = "config_get"

====
